---- MODULE Spec2Model ----
(***************************************************************************)
(* Model of bus_schedule_reporter.py: the line-by-line extractor           *)
(* (extract_data), the upload loop that accumulates all_data and the       *)
(* booking code, and the sheet builder (write_to_excel).                   *)
(*                                                                         *)
(* Representation.                                                         *)
(*   - Text that the program inspects character by character (route        *)
(*     identifiers) is a sequence of one-character strings.                *)
(*   - Every numeric value is an integer number of hundredths: the int 3   *)
(*     is 300, the float 3.75 is 375.  All floats the program produces are *)
(*     results of round(_, 2), i.e. the double nearest to k/100.           *)
(*   - A line of a report file is a record naming which of the program's   *)
(*     regular expressions match it and what they capture.                 *)
(***************************************************************************)
EXTENDS Integers, Sequences, FiniteSets, TLC

\* ------------------------------------------------------------------------
\* Bounds of the model
\* ------------------------------------------------------------------------
MaxLines == 3

MaxFiles == 2

\* ------------------------------------------------------------------------
\* Characters and strings
\* ------------------------------------------------------------------------
UpperChars == <<"A","B","C","D","E","F","G","H","I","J","K","L","M",
                "N","O","P","Q","R","S","T","U","V","W","X","Y","Z">>

LowerChars == <<"a","b","c","d","e","f","g","h","i","j","k","l","m",
                "n","o","p","q","r","s","t","u","v","w","x","y","z">>

DigitChars == <<"0","1","2","3","4","5","6","7","8","9">>

Range(s) == {s[i] : i \in 1..Len(s)}

\* the greatest and the least element of a non-empty set of integers
MaxOf(S) == CHOOSE x \in S : \A y \in S : y <= x

MinOf(S) == CHOOSE x \in S : \A y \in S : x <= y

IndexOf(seq, c) == CHOOSE i \in 1..Len(seq) : seq[i] = c

\* str.lower(), one character
LowerChar(c) == IF c \in Range(UpperChars) THEN LowerChars[IndexOf(UpperChars, c)] ELSE c

\* str.upper(), one character
UpperChar(c) == IF c \in Range(LowerChars) THEN UpperChars[IndexOf(LowerChars, c)] ELSE c

\* str.lower()
Lower(s) == [i \in 1..Len(s) |-> LowerChar(s[i])]

\* str.upper()
Upper(s) == [i \in 1..Len(s) |-> UpperChar(s[i])]

IsSpace(c) == c \in {" ", "\t", "\n"}

IsDigit(c) == c \in Range(DigitChars)

\* str.strip(): drop leading and trailing whitespace
Strip(s) ==
  LET keep == {i \in 1..Len(s) : ~IsSpace(s[i])}
  IN IF keep = {} THEN <<>>
     ELSE LET lo == CHOOSE i \in keep : \A j \in keep : i <= j
              hi == CHOOSE i \in keep : \A j \in keep : j <= i
          IN SubSeq(s, lo, hi)

\* Python's `needle in hay` for strings
Contains(hay, needle) ==
  \E i \in 1..(Len(hay) - Len(needle) + 1) : SubSeq(hay, i, i + Len(needle) - 1) = needle

\* int() of a non-empty string of decimal digits
RECURSIVE DigitsToInt(_)
DigitsToInt(s) ==
  IF s = <<>> THEN 0
  ELSE 10 * DigitsToInt(SubSeq(s, 1, Len(s) - 1)) + (IndexOf(DigitChars, s[Len(s)]) - 1)

\* the text matched by re.match(r'(\d+)', s): the longest prefix of digits
DigitPrefix(s) ==
  LET stop == {i \in 1..Len(s) : ~IsDigit(s[i])}
      n == IF stop = {} THEN Len(s) ELSE (CHOOSE i \in stop : \A j \in stop : i <= j) - 1
  IN SubSeq(s, 1, n)

\* ------------------------------------------------------------------------
\* Numbers.  A value v stands for v/100.
\* ------------------------------------------------------------------------
\* significand width of a Python float (IEEE 754 double)
MantissaBits == 53

\* Binary long division of c/100 down to the last significand bit of the
\* nearest-below double: r is the remainder (scaled by 100), n the number of
\* significand bits produced so far, last the last bit produced.
RECURSIVE Significand(_, _, _)
Significand(r, n, last) ==
  IF n >= MantissaBits THEN <<r, last>>
  ELSE LET b == IF 2 * r >= 100 THEN 1 ELSE 0
       IN Significand(2 * r - 100 * b, IF n > 0 \/ b = 1 THEN n + 1 ELSE n, b)

RECURSIVE BitLength(_)
BitLength(i) == IF i = 0 THEN 0 ELSE 1 + BitLength(i \div 2)

\* sign of float(c/100) - c/100 for c > 0: the double nearest to c/100 lies
\* above (1), below (-1) or exactly on (0) the decimal value
FloatError(c) ==
  LET whole == c \div 100
      res == Significand(c % 100, BitLength(whole), whole % 2)
      r == res[1]
      last == res[2]
  IN IF r = 0 THEN 0
     ELSE IF 2 * r > 100 THEN 1
     ELSE IF 2 * r < 100 THEN -1
     ELSE IF last = 1 THEN 1 ELSE -1

\* round(x / 2, 2) for the double x nearest to c/100.  x / 2 is exact, so an
\* odd c is a decimal tie that round() settles by the exact binary value of
\* x / 2: by the sign of the representation error, or to the even neighbour
\* when x is exactly c/100.
HalfRounded(c) ==
  IF c % 2 = 0 THEN c \div 2
  ELSE LET lo == (c - 1) \div 2
           hi == (c + 1) \div 2
           e == FloatError(c)
       IN IF e > 0 THEN hi
          ELSE IF e < 0 THEN lo
          ELSE IF lo % 2 = 0 THEN lo ELSE hi

\* ------------------------------------------------------------------------
\* data_fields
\* ------------------------------------------------------------------------
\* (name, has a regex); Revenue Hours is the only computed field
data_fields ==
  << [name |-> "Blocks",                   regex |-> TRUE],
     [name |-> "Trips",                    regex |-> TRUE],
     [name |-> "Off Service Duration",     regex |-> TRUE],
     [name |-> "In Service Duration",      regex |-> TRUE],
     [name |-> "Loading Duration",         regex |-> TRUE],
     [name |-> "Layover Duration",         regex |-> TRUE],
     [name |-> "Platform Hours",           regex |-> TRUE],
     [name |-> "In-service Distance (KM)", regex |-> TRUE],
     [name |-> "Revenue Hours",            regex |-> FALSE] >>

FieldNames == {data_fields[i].name : i \in 1..Len(data_fields)}

ExtractedFields == {data_fields[i].name : i \in {j \in 1..Len(data_fields) : data_fields[j].regex}}

\* 'Duration' in field_name or field_name == 'Platform Hours'
IsTimeField(field_name) ==
  field_name \in {"Off Service Duration", "In Service Duration", "Loading Duration",
                  "Layover Duration", "Platform Hours"}

\* ------------------------------------------------------------------------
\* Lines of a report file.
\*   [kind |-> "route", num, name]   matches the route header pattern; num is
\*                                   group 1, name is group 2 (unstripped)
\*   [kind |-> "field", field, raw]  matches the regex of data field `field`
\*                                   and of no other; raw describes group 1
\*   [kind |-> "booking", code]      matches 'Booking:\s*(\d+)'
\*   [kind |-> "other"]              matches nothing
\* A captured text raw is
\*   [shape |-> "hm", h, m]   a text beginning <h>h<m>
\*   [shape |-> "int", v]     digits only
\*   [shape |-> "dec", v]     digits with one decimal point, v in hundredths
\*   [shape |-> "bad"]        anything else the character class admits
\*                            ("45m" for a duration, "1.2.3" for a distance)
\* ------------------------------------------------------------------------
parse_time_string(time_str) ==
  IF time_str.shape = "hm"
  THEN 100 * time_str.h + (10 * time_str.m + 3) \div 6   \* round(hours + minutes / 60, 2)
  ELSE 0

\* float(val) if '.' in val else int(val), 0 when the conversion raises
parse_number(val) ==
  IF val.shape \in {"int", "dec"} THEN IF val.shape = "int" THEN 100 * val.v ELSE val.v
  ELSE 0

\* lines 73-80: the value stored for a matched field
parse_value(field_name, val) ==
  IF IsTimeField(field_name) THEN parse_time_string(val) ELSE parse_number(val)

\* current_route before the first header (None); never a route identifier,
\* which always contains the joining space
NoRoute == <<>>

\* line 64: a fresh record, every field zero
ZeroRecord == [f \in FieldNames |-> 0]

\* lines 61-63
RouteId(line) == line.num \o <<" ">> \o Strip(line.name)

\* ExtractLine with a slip: a header seen again keeps the route's old record
ExtractLine_KeepsRecord(st, line) ==
  IF line.kind = "route"
  THEN LET r == RouteId(line)
       IN [current_route |-> r,
           data |-> st.data @@ (r :> ZeroRecord),
           keys |-> IF r \in DOMAIN st.data THEN st.keys ELSE Append(st.keys, r)]
  ELSE IF st.current_route # NoRoute /\ line.kind = "field"
       THEN [st EXCEPT !.data[st.current_route][line.field] = parse_value(line.field, line.raw)]
       ELSE st

\* One iteration of the extraction loop (lines 58-81) on the loop state
\* st = [current_route, data, keys]; keys is the insertion order of data.
ExtractLine(st, line) ==
  IF line.kind = "route"
  THEN LET r == RouteId(line)
       IN [current_route |-> r,
           data |-> (r :> ZeroRecord) @@ st.data,
           keys |-> IF r \in DOMAIN st.data THEN st.keys ELSE Append(st.keys, r)]
  ELSE IF st.current_route # NoRoute /\ line.kind = "field"
       THEN [st EXCEPT !.data[st.current_route][line.field] = parse_value(line.field, line.raw)]
       ELSE st

\* WithRevenueHours with a slip: the layover is left out of the sum
WithRevenueHours_NoLayover(rec) ==
  [rec EXCEPT !["Revenue Hours"] = rec["In Service Duration"]]

\* lines 85-88: Revenue Hours of a record.  The sum of two hundredths is
\* within an ulp of a hundredth, so round(_, 2) returns it exactly.
WithRevenueHours(rec) ==
  [rec EXCEPT !["Revenue Hours"] = rec["In Service Duration"] + rec["Layover Duration"]]

\* line 90
IsSeniorShopper(route) ==
  Lower(Strip(route)) =
    <<"6","5"," ","s","e","n","i","o","r"," ","s","h","o","p","p","e","r">>

\* lines 91-92
HalveRecord(rec) == [key \in DOMAIN rec |-> HalfRounded(rec[key])]

\* PostPassRoute with a slip: halve first, then compute Revenue Hours
PostPassRoute_HalveFirst(route, rec) ==
  IF IsSeniorShopper(route) THEN WithRevenueHours(HalveRecord(rec)) ELSE WithRevenueHours(rec)

\* One iteration of the post-pass loop (lines 84-92)
PostPassRoute(route, rec) ==
  IF IsSeniorShopper(route) THEN HalveRecord(WithRevenueHours(rec)) ELSE WithRevenueHours(rec)

\* lines 43-48
RECURSIVE extract_booking_code(_)
extract_booking_code(lines) ==
  IF lines = <<>> THEN "unknown"
  ELSE IF Head(lines).kind = "booking" THEN Head(lines).code
  ELSE extract_booking_code(Tail(lines))

\* The extraction loop over a whole file (lines 55-81)
RECURSIVE ExtractLoop(_, _)
ExtractLoop(st, lines) ==
  IF lines = <<>> THEN st ELSE ExtractLoop(ExtractLine(st, Head(lines)), Tail(lines))

\* The post-pass loop over data in insertion order (lines 84-92)
RECURSIVE PostPass(_, _)
PostPass(data, keys) ==
  IF keys = <<>> THEN data
  ELSE PostPass([data EXCEPT ![Head(keys)] = PostPassRoute(Head(keys), data[Head(keys)])],
                Tail(keys))

EmptyData == [r \in {} |-> 0]

LoopStart == [current_route |-> NoRoute, data |-> EmptyData, keys |-> <<>>]

\* lines 50-94: the pair extract_data returns
extract_data(lines) ==
  LET st == ExtractLoop(LoopStart, lines)
  IN [booking_code |-> extract_booking_code(lines), data |-> PostPass(st.data, st.keys)]

\* ------------------------------------------------------------------------
\* State
\* ------------------------------------------------------------------------
VARIABLES
  \* extract_data, run on one file
  lines,          \* the file's lines (f.readlines())
  line_idx,       \* index of the next line of the extraction loop
  current_route,
  data,
  keys,           \* insertion order of data
  extracted,      \* data as the extraction loop left it
  post_idx,       \* index into keys of the next route of the post-pass
  pc,             \* "scan", "post", "done"; "off" when the extractor is not run
  \* the upload script and write_to_excel
  uploaded_files, \* the uploaded files in input order, each [name, lines]
  file_idx,       \* index of the next uploaded file
  all_data,
  booking_code,
  ws,             \* the worksheet: written cells by <<row, column>>
  merged,         \* the worksheet's merged ranges
  all_routes,
  rerun_routes,   \* all_routes of a second run of the script on the same uploads
  row_idx,
  filename,
  step            \* "upload", "rows", "taxi", "totals", "done"; "off" when not run

extract_vars == <<lines, line_idx, current_route, data, keys, extracted, post_idx, pc>>

report_vars == <<uploaded_files, file_idx, all_data, booking_code, ws, merged, all_routes,
                 rerun_routes, row_idx, filename, step>>

vars == <<extract_vars, report_vars>>

NoData == [n \in {} |-> 0]

\* the script's variables while only extract_data is run
ReportOff ==
  /\ uploaded_files = <<>>
  /\ file_idx = 1
  /\ all_data = NoData
  /\ booking_code = "unknown"
  /\ ws = NoData
  /\ merged = {}
  /\ all_routes = <<>>
  /\ rerun_routes = <<>>
  /\ row_idx = 3
  /\ filename = <<>>
  /\ step = "off"

\* extract_data's variables while the script is run (the script calls
\* extract_data as one step)
ExtractOff ==
  /\ lines = <<>>
  /\ line_idx = 1
  /\ current_route = <<>>
  /\ data = NoData
  /\ keys = <<>>
  /\ extracted = NoData
  /\ post_idx = 1
  /\ pc = "off"

\* ------------------------------------------------------------------------
\* Input lines of the extractor runs
\* ------------------------------------------------------------------------
SeniorHeader ==
  [kind |-> "route", num |-> <<"6","5">>,
   name |-> <<"S","e","n","i","o","r"," ","S","h","o","p","p","e","r">>]

\* upper case, trailing blank before the line end
SeniorHeaderUpper ==
  [kind |-> "route", num |-> <<"6","5">>,
   name |-> <<"S","E","N","I","O","R"," ","S","H","O","P","P","E","R"," ">>]

ElmHeader == [kind |-> "route", num |-> <<"3">>, name |-> <<"E","l","m"," ","A","v","e">>]

FieldLine(f, raw) == [kind |-> "field", field |-> f, raw |-> raw]

HM(h, m) == [shape |-> "hm", h |-> h, m |-> m]

LineMenu ==
  { SeniorHeader, SeniorHeaderUpper, ElmHeader,
    FieldLine("Blocks", [shape |-> "int", v |-> 3]),
    FieldLine("Trips", [shape |-> "int", v |-> 5]),
    FieldLine("Off Service Duration", HM(1, 0)),
    FieldLine("In Service Duration", HM(0, 3)),
    FieldLine("In Service Duration", HM(2, 0)),
    FieldLine("Loading Duration", [shape |-> "bad"]),
    FieldLine("Layover Duration", HM(0, 3)),
    FieldLine("Layover Duration", HM(1, 0)),
    FieldLine("Platform Hours", HM(3, 45)),
    FieldLine("In-service Distance (KM)", [shape |-> "dec", v |-> 1235]),
    FieldLine("In-service Distance (KM)", [shape |-> "bad"]),
    [kind |-> "booking", code |-> "4821"],
    [kind |-> "other"] }

SeqsUpTo(S, n) == UNION {[1..k -> S] : k \in 0..n}

\* ------------------------------------------------------------------------
\* extract_data, step by step
\* ------------------------------------------------------------------------
InitExtract ==
  /\ lines \in SeqsUpTo(LineMenu, MaxLines)
  /\ line_idx = 1
  /\ current_route = NoRoute
  /\ data = EmptyData
  /\ keys = <<>>
  /\ extracted = EmptyData
  /\ post_idx = 1
  /\ pc = "scan"
  /\ ReportOff

\* lines 58-81, one iteration
ReadLine ==
  /\ pc = "scan"
  /\ line_idx <= Len(lines)
  /\ LET st == ExtractLine([current_route |-> current_route, data |-> data, keys |-> keys],
                           lines[line_idx])
     IN /\ current_route' = st.current_route
        /\ data' = st.data
        /\ keys' = st.keys
  /\ line_idx' = line_idx + 1
  /\ UNCHANGED <<lines, extracted, post_idx, pc, report_vars>>

\* the extraction loop ends, the post-pass begins
EndOfLines ==
  /\ pc = "scan"
  /\ line_idx > Len(lines)
  /\ extracted' = data
  /\ post_idx' = 1
  /\ pc' = "post"
  /\ UNCHANGED <<lines, line_idx, current_route, data, keys, report_vars>>

\* lines 84-92, one iteration
PostPassStep ==
  /\ pc = "post"
  /\ post_idx <= Len(keys)
  /\ data' = [data EXCEPT ![keys[post_idx]] = PostPassRoute(keys[post_idx], data[keys[post_idx]])]
  /\ post_idx' = post_idx + 1
  /\ UNCHANGED <<lines, line_idx, current_route, keys, extracted, pc, report_vars>>

\* line 94
ReturnData ==
  /\ pc = "post"
  /\ post_idx > Len(keys)
  /\ pc' = "done"
  /\ UNCHANGED <<lines, line_idx, current_route, data, keys, extracted, post_idx, report_vars>>

NextExtract == ReadLine \/ EndOfLines \/ PostPassStep \/ ReturnData

SpecExtract == InitExtract /\ [][NextExtract]_vars

\* ------------------------------------------------------------------------
\* Properties of extract_data
\* ------------------------------------------------------------------------
\* The stepwise run and the closed form used by the upload loop agree.
ExtractAgrees == pc = "done" => data = extract_data(lines).data

SeniorName == <<"6","5"," ","s","e","n","i","o","r"," ","s","h","o","p","p","e","r">>

\* the route identifier, trimmed and lower-cased, is '65 senior shopper'
NamedSenior(route) == Lower(Strip(route)) = SeniorName

Abs(x) == IF x < 0 THEN -x ELSE x

\* C1 as stated: in every returned record Revenue Hours is
\* round(In Service Duration + Layover Duration, 2) of the record's own final
\* durations, the halved '65 Senior Shopper' record included.
C1_AsStated ==
  pc = "done" =>
    \A r \in DOMAIN data :
      data[r]["Revenue Hours"] = data[r]["In Service Duration"] + data[r]["Layover Duration"]

\* C1 amended: for every route other than '65 Senior Shopper' the returned
\* Revenue Hours is round(In Service Duration + Layover Duration, 2) of the
\* record's own final durations; for '65 Senior Shopper' it is
\* round(round(in + lay, 2) / 2, 2) of the parsed, un-halved durations, and
\* lies within 0.01 of the sum of the record's halved durations.
C1_RevenueHours ==
  pc = "done" =>
    \A r \in DOMAIN data :
      IF NamedSenior(r)
      THEN /\ data[r]["Revenue Hours"] =
                HalfRounded(extracted[r]["In Service Duration"] + extracted[r]["Layover Duration"])
           /\ Abs(data[r]["Revenue Hours"]
                  - (data[r]["In Service Duration"] + data[r]["Layover Duration"])) <= 1
      ELSE data[r]["Revenue Hours"] =
             data[r]["In Service Duration"] + data[r]["Layover Duration"]

\* a returned '65 Senior Shopper' record with both durations parsed non-zero
C1_Witness ==
  /\ pc = "done"
  /\ \E r \in DOMAIN data :
       /\ NamedSenior(r)
       /\ extracted[r]["In Service Duration"] > 0
       /\ extracted[r]["Layover Duration"] > 0
       /\ data[r]["Revenue Hours"] > 0

\* C8: every field of a returned record whose identifier, trimmed and
\* lower-cased, is '65 senior shopper' is round(v / 2, 2), v being the value
\* the field has without the halving (Revenue Hours computed first); every
\* other record is exactly as extracted and computed.
C8_Halving ==
  pc = "done" =>
    \A r \in DOMAIN data :
      LET unhalved ==
            [extracted[r] EXCEPT !["Revenue Hours"] =
               extracted[r]["In Service Duration"] + extracted[r]["Layover Duration"]]
      IN IF NamedSenior(r)
         THEN \A k \in FieldNames : data[r][k] = HalfRounded(unhalved[k])
         ELSE data[r] = unhalved

\* a returned senior record whose halving had to round (an odd hundredth)
\* and changed every parsed field it holds
C8_Witness ==
  /\ pc = "done"
  /\ \E r \in DOMAIN data :
       /\ NamedSenior(r)
       /\ r # SeniorName
       /\ \E k \in ExtractedFields : extracted[r][k] % 2 = 1 /\ data[r][k] > 0
       /\ data[r]["Revenue Hours"] > 0

\* the lines the extraction loop has consumed
Consumed == SubSeq(lines, 1, line_idx - 1)

IsHeader(l) == l.kind = "route"

\* the value field f of route r must hold after the lines ls: that of the
\* last line matching f between r's most recent header and the next header
ExpectedValue(ls, r, f) ==
  LET opened == MaxOf({i \in 1..Len(ls) : IsHeader(ls[i]) /\ RouteId(ls[i]) = r})
      closed == MinOf({i \in (opened + 1)..Len(ls) : IsHeader(ls[i])} \cup {Len(ls) + 1})
      hits == {i \in (opened + 1)..(closed - 1) : ls[i].kind = "field" /\ ls[i].field = f}
  IN IF hits = {} THEN 0 ELSE parse_value(f, ls[MaxOf(hits)].raw)

\* C10: whatever lines the extraction loop has consumed, the records are
\* those of the routes whose header was consumed, each holds all nine
\* fields, each extracted field holds the parsed value of the last matching
\* line of the route's most recent span (zero if none) and Revenue Hours is
\* still zero; lines before the first header and header lines store nothing.
C10_ExtractionLoop ==
  pc = "scan" =>
    /\ DOMAIN data = {RouteId(Consumed[i]) : i \in {j \in 1..Len(Consumed) : IsHeader(Consumed[j])}}
    /\ \A r \in DOMAIN data :
         /\ DOMAIN data[r] = FieldNames
         /\ \A f \in ExtractedFields : data[r][f] = ExpectedValue(Consumed, r, f)
         /\ data[r]["Revenue Hours"] = 0

\* the loop has consumed a route span in which one field was matched twice
\* with different values, and the record keeps the second
C10_Witness ==
  /\ pc = "scan"
  /\ line_idx > Len(lines)
  /\ \E r \in DOMAIN data, i, j \in 1..Len(lines) :
       /\ 1 < i /\ i < j
       /\ lines[i].kind = "field" /\ lines[j].kind = "field"
       /\ lines[i].field = lines[j].field
       /\ lines[i].raw # lines[j].raw
       /\ IsHeader(lines[i - 1])
       /\ data[r][lines[j].field] = parse_value(lines[j].field, lines[j].raw)
       /\ data[r][lines[j].field] # parse_value(lines[i].field, lines[i].raw)

\* ------------------------------------------------------------------------
\* The worksheet
\* ------------------------------------------------------------------------
file_order == <<"WDY Stats.prt", "SAT Stats.prt", "SUN Stats.prt">>

\* f.split()[0] for the names of file_order (line 128)
ShortLabel(f) ==
  CASE f = "WDY Stats.prt" -> "WDY"
    [] f = "SAT Stats.prt" -> "SAT"
    [] f = "SUN Stats.prt" -> "SUN"

\* len(data_fields)
NumFields == Len(data_fields)

\* cell values: a text, a route identifier, a number, the empty string, and
\* the formula =SUM(<col><first>:<col><last>)
Text(s) == [text |-> s]

RouteCell(r) == [route |-> r]

Num(v) == [num |-> v]

Blank == [blank |-> TRUE]

SumFormula(col, first, last) == [sum_col |-> col, first |-> first, last |-> last]

\* the files of file_order that are keys of all_data, in that order
PresentFiles(ad) == SelectSeq(file_order, LAMBDA f : f \in DOMAIN ad)

\* lines 106-110
Headers(ad) ==
  [i \in 1..(1 + NumFields * Len(PresentFiles(ad))) |->
     IF i = 1 THEN "Route number" ELSE data_fields[((i - 2) % NumFields) + 1].name]

\* lines 112-131: the two header rows.  The merge of A1:A2 leaves only its
\* top-left cell; the blocks of row 1 are laid out by the running start_col.
HeaderCells(ad) ==
  LET h == Headers(ad)
      present == PresentFiles(ad)
      row2 == [p \in {<<2, i>> : i \in 2..Len(h)} |-> Text(h[p[2]])]
      corner == (<<1, 1>> :> Text("Route number"))
      start_col(j) == 2 + (j - 1) * NumFields
      row1 == [p \in {<<1, start_col(j)>> : j \in 1..Len(present)} |->
                 Text(ShortLabel(present[((p[2] - 2) \div NumFields) + 1]))]
  IN corner @@ row1 @@ row2

\* lines 118 and 126-127
HeaderMerges(ad) ==
  {[row1 |-> 1, col1 |-> 1, row2 |-> 2, col2 |-> 1]} \cup
  {[row1 |-> 1, col1 |-> 2 + (j - 1) * NumFields,
    row2 |-> 1, col2 |-> 2 + (j - 1) * NumFields + NumFields - 1] :
      j \in 1..Len(PresentFiles(ad))}

\* route_sort_key with a slip: only the first digit is read
route_sort_key_FirstDigit(route) ==
  IF route # <<>> /\ IsDigit(route[1])
  THEN [inf |-> FALSE, n |-> DigitsToInt(<<route[1]>>)]
  ELSE [inf |-> TRUE, n |-> 0]

\* lines 96-98: the leading integer, or float('inf')
route_sort_key(route) ==
  LET d == DigitPrefix(route)
  IN IF d # <<>> THEN [inf |-> FALSE, n |-> DigitsToInt(d)] ELSE [inf |-> TRUE, n |-> 0]

\* a < b on sort keys
KeyLess(a, b) == IF a.inf THEN FALSE ELSE IF b.inf THEN TRUE ELSE a.n < b.n

\* stable insertion: x goes before the first element with a greater key
InsertSorted(srt, x) ==
  LET greater == {i \in 1..Len(srt) : KeyLess(route_sort_key(x), route_sort_key(srt[i]))}
      at == IF greater = {} THEN Len(srt) + 1 ELSE CHOOSE i \in greater : \A j \in greater : i <= j
  IN SubSeq(srt, 1, at - 1) \o <<x>> \o SubSeq(srt, at, Len(srt))

\* sorted(iterable, key=route_sort_key): a stable sort of the iteration order
RECURSIVE sorted(_)
sorted(iter) ==
  IF iter = <<>> THEN <<>>
  ELSE InsertSorted(sorted(SubSeq(iter, 1, Len(iter) - 1)), iter[Len(iter)])

\* the orders in which a set of strings may be iterated: the order follows
\* the strings' hashes, which are salted per interpreter process
IterationOrders(S) == {p \in [1..Cardinality(S) -> S] : Range(p) = S}

\* line 134: the values all_routes may take
SortedRoutes(ad) ==
  LET S == UNION {DOMAIN ad[n] : n \in DOMAIN ad}
  IN {sorted(p) : p \in IterationOrders(S)}

\* lines 136-153: the body rows for the routes in order
BodyCells(ad, routes) ==
  LET blocks == {i \in 1..Len(file_order) : file_order[i] \in DOMAIN ad}
      col_offset(file_idx0) == 2 + file_idx0 * NumFields
      value(i, fi, k) ==
        IF routes[i] \in DOMAIN ad[file_order[fi]]
        THEN Num(ad[file_order[fi]][routes[i]][data_fields[k].name])
        ELSE Blank
      first == [p \in {<<2 + i, 1>> : i \in 1..Len(routes)} |-> RouteCell(routes[p[1] - 2])]
      rest == [p \in {<<2 + i, col_offset(fi - 1) + (k - 1)>> :
                        i \in 1..Len(routes), fi \in blocks, k \in 1..NumFields} |->
                 value(p[1] - 2, ((p[2] - 2) \div NumFields) + 1, ((p[2] - 2) % NumFields) + 1)]
  IN first @@ rest

\* the TAXI scan with a slip: the comparison forgets upper()
FirstTaxiRow_CaseSensitive(w, n) ==
  LET hits == {row \in 3..(n - 1) : Contains(w[<<row, 1>>].route, <<"T","A","X","I">>)}
  IN IF hits = {} THEN 0 ELSE MinOf(hits)

\* lines 156-158: the first row of 3..row_idx-1 whose column 1 contains TAXI
\* once upper-cased; 0 if there is none
FirstTaxiRow(w, n) ==
  LET hits == {row \in 3..(n - 1) : Contains(Upper(w[<<row, 1>>].route), <<"T","A","X","I">>)}
  IN IF hits = {} THEN 0 ELSE MinOf(hits)

\* ws.delete_rows(row): the row's cells go, the cells below move up by one
delete_rows(w, row) ==
  LET above == {p \in DOMAIN w : p[1] < row}
      below == {p \in DOMAIN w : p[1] > row}
  IN [p \in above \cup {<<q[1] - 1, q[2]>> : q \in below} |->
        IF p[1] < row THEN w[p] ELSE w[<<p[1] + 1, p[2]>>]]

\* lines 164-177: the totals row
TotalCells(ad, total_row_idx) ==
  LET blocks == {i \in 1..Len(file_order) : file_order[i] \in DOMAIN ad}
      col_offset(file_idx0) == 2 + file_idx0 * NumFields
      label == (<<total_row_idx, 1>> :> Text("Total"))
      sums == [p \in {<<total_row_idx, col_offset(fi - 1) + (k - 1)>> :
                        fi \in blocks, k \in 1..NumFields} |->
                 SumFormula(p[2], 3, total_row_idx - 1)]
  IN label @@ sums

\* the booking update with a slip: the last known code wins
NextBookingCode_LastWins(current, bc) == IF bc # "unknown" THEN bc ELSE current

\* lines 205-206.  bc is a string of digits or "unknown", which lower()
\* leaves as it is.
NextBookingCode(current, bc) ==
  IF bc # "unknown" /\ current = "unknown" THEN bc ELSE current

\* ------------------------------------------------------------------------
\* Uploaded files of the script runs
\* ------------------------------------------------------------------------
MainHeader == [kind |-> "route", num |-> <<"1","2">>, name |-> <<"M","a","i","n"," ","S","t">>]

TaxiHeader == [kind |-> "route", num |-> <<"T","A","X","I">>, name |-> <<"L","O","O","P">>]

CabHeader == [kind |-> "route", num |-> <<"t","a","x","i">>, name |-> <<"c","a","b">>]

ShuttleHeader == [kind |-> "route", num |-> <<"S","h","u","t","t","l","e">>, name |-> <<"B","u","s">>]

Booking(code) == [kind |-> "booking", code |-> code]

FileMenu ==
  { << MainHeader, FieldLine("Trips", [shape |-> "int", v |-> 3]),
       ElmHeader, FieldLine("Trips", [shape |-> "int", v |-> 5]) >>,
    << Booking("4821"), TaxiHeader, Booking("9"), ElmHeader,
       FieldLine("Blocks", [shape |-> "int", v |-> 3]) >>,
    << ShuttleHeader, CabHeader, Booking("77") >>,
    << [kind |-> "other"] >> }

\* the display names: the three recognised ones and another
FileNames == Range(file_order) \cup {"Notes.prt"}

UploadMenu == {[name |-> n, lines |-> l] : n \in FileNames, l \in FileMenu}

\* ------------------------------------------------------------------------
\* The script (lines 193-208) and write_to_excel, step by step
\* ------------------------------------------------------------------------
InitReport ==
  /\ uploaded_files \in SeqsUpTo(UploadMenu, MaxFiles)
  /\ file_idx = 1
  /\ all_data = NoData
  /\ booking_code = "unknown"
  /\ ws = NoData
  /\ merged = {}
  /\ all_routes = <<>>
  /\ rerun_routes = <<>>
  /\ row_idx = 3
  /\ filename = <<>>
  /\ step = "upload"
  /\ ExtractOff

\* lines 198-206, one iteration
ProcessFile ==
  /\ step = "upload"
  /\ file_idx <= Len(uploaded_files)
  /\ LET uploaded_file == uploaded_files[file_idx]
         res == extract_data(uploaded_file.lines)
     IN /\ all_data' = (uploaded_file.name :> res.data) @@ all_data
        /\ booking_code' = NextBookingCode(booking_code, res.booking_code)
  /\ file_idx' = file_idx + 1
  /\ UNCHANGED <<uploaded_files, ws, merged, all_routes, rerun_routes, row_idx, filename, step,
                 extract_vars>>

\* lines 193 and 208, then 101-131: with at least one upload, write_to_excel
\* is called and lays out the header rows
BuildHeaders ==
  /\ step = "upload"
  /\ uploaded_files # <<>>
  /\ file_idx > Len(uploaded_files)
  /\ ws' = HeaderCells(all_data)
  /\ merged' = HeaderMerges(all_data)
  /\ step' = "rows"
  /\ UNCHANGED <<uploaded_files, file_idx, all_data, booking_code, all_routes, rerun_routes,
                 row_idx, filename, extract_vars>>

\* lines 133-153
WriteRoutes ==
  /\ step = "rows"
  /\ \E order \in SortedRoutes(all_data), again \in SortedRoutes(all_data) :
       /\ all_routes' = order
       /\ rerun_routes' = again
       /\ ws' = BodyCells(all_data, order) @@ ws
       /\ row_idx' = 3 + Len(order)
  /\ step' = "taxi"
  /\ UNCHANGED <<uploaded_files, file_idx, all_data, booking_code, merged, filename,
                 extract_vars>>

\* lines 155-161
RemoveTaxi ==
  /\ step = "taxi"
  /\ LET row == FirstTaxiRow(ws, row_idx)
     IN IF row # 0
        THEN /\ ws' = delete_rows(ws, row)
             /\ row_idx' = row_idx - 1
        ELSE UNCHANGED <<ws, row_idx>>
  /\ step' = "totals"
  /\ UNCHANGED <<uploaded_files, file_idx, all_data, booking_code, merged, all_routes,
                 rerun_routes, filename, extract_vars>>

\* lines 163-184
WriteTotals ==
  /\ step = "totals"
  /\ ws' = TotalCells(all_data, row_idx) @@ ws
  /\ filename' = <<IF booking_code # "unknown" THEN booking_code ELSE "Unknown",
                   " - Vehicle Schedule Overview.xlsx">>
  /\ step' = "done"
  /\ UNCHANGED <<uploaded_files, file_idx, all_data, booking_code, merged, all_routes,
                 rerun_routes, row_idx, extract_vars>>

NextReport == ProcessFile \/ BuildHeaders \/ WriteRoutes \/ RemoveTaxi \/ WriteTotals

SpecReport == InitReport /\ [][NextReport]_vars

\* ------------------------------------------------------------------------
\* Properties of the script and the worksheet
\* ------------------------------------------------------------------------
CellAt(w, row, col) == IF <<row, col>> \in DOMAIN w THEN w[<<row, col>>] ELSE [none |-> TRUE]

\* the cells of one row, by column
RowOf(w, row) == [c \in {p[2] : p \in {q \in DOMAIN w : q[1] = row}} |-> w[<<row, c>>]]

\* the rows 3 .. n-1 of the sheet, top to bottom
RowsOf(w, n) == [i \in 1..(n - 3) |-> RowOf(w, i + 2)]

\* the route identifiers of rows 3 .. n-1, top to bottom
RouteColumn(w, n) == [i \in 1..(n - 3) |-> w[<<i + 2, 1>>].route]

\* s without its i-th element
Without(sq, i) == SubSeq(sq, 1, i - 1) \o SubSeq(sq, i + 1, Len(sq))

\* the recognised day-type files among the uploads' names
PresentDayTypes == {f \in Range(file_order) : f \in DOMAIN all_data}

\* the column of the row-1 block header of day-type f
BlockColumn(f) == CHOOSE c \in 2..(1 + NumFields * Len(file_order)) : CellAt(ws, 1, c) = Text(ShortLabel(f))

\* C2 as stated: whichever day-types are present, the sheet has one
\* nine-column block per present day-type and no other column, and under the
\* row-1 header of day-type d the row-2 header, every route row and the
\* totals row hold field k of d in the same column.
C2_AsStated ==
  step = "done" =>
    /\ \A p \in DOMAIN ws : p[2] <= 1 + NumFields * Cardinality(PresentDayTypes)
    /\ \A f \in PresentDayTypes :
         /\ \E c \in 2..(1 + NumFields * Len(file_order)) : CellAt(ws, 1, c) = Text(ShortLabel(f))
         /\ [row1 |-> 1, col1 |-> BlockColumn(f), row2 |-> 1, col2 |-> BlockColumn(f) + NumFields - 1]
              \in merged
         /\ \A k \in 1..NumFields :
              LET col == BlockColumn(f) + k - 1
              IN /\ CellAt(ws, 2, col) = Text(data_fields[k].name)
                 /\ \A row \in 3..(row_idx - 1) :
                      LET route == ws[<<row, 1>>].route
                      IN CellAt(ws, row, col) =
                           IF route \in DOMAIN all_data[f]
                           THEN Num(all_data[f][route][data_fields[k].name])
                           ELSE Blank
                 /\ "sum_col" \in DOMAIN CellAt(ws, row_idx, col)
                 /\ CellAt(ws, row_idx, col).sum_col = col

\* the rows a range <col><first>:<col><last> covers: a range is the rectangle
\* between its two corners, whichever is written first
RangeRows(formula) ==
  IF formula.first <= formula.last THEN formula.first..formula.last
  ELSE formula.last..formula.first

\* C3 as stated: every Total cell sums exactly the cells of the route rows
\* left above it in its own column (no header row, not the totals row), for
\* any number of remaining route rows, zero included.
C3_AsStated ==
  step = "done" =>
    /\ CellAt(ws, row_idx, 1) = Text("Total")
    /\ Cardinality({p \in DOMAIN ws : p[1] = row_idx /\ p[2] > 1})
         = NumFields * Cardinality(PresentDayTypes)
    /\ \A p \in DOMAIN ws :
         (p[1] = row_idx /\ p[2] > 1) =>
           /\ "sum_col" \in DOMAIN ws[p]
           /\ ws[p].sum_col = p[2]
           /\ RangeRows(ws[p]) = 3..(row_idx - 1)

\* the identifier contains 'taxi' whatever the case of its letters
HasTaxi(route) == Contains(Lower(route), <<"t","a","x","i">>)

\* C4: the TAXI step removes exactly the topmost row whose identifier
\* contains 'TAXI' case-insensitively, if there is one, and nothing otherwise;
\* all other rows, further TAXI rows included, keep their cells and order;
\* the totals row is then written directly below the last remaining row.
C4_TaxiExclusion ==
  [][ /\ step = "taxi" =>
           LET before == RowsOf(ws, row_idx)
               after == RowsOf(ws', row_idx')
               hits == {i \in 1..Len(before) : HasTaxi(before[i][1].route)}
           IN /\ after = IF hits = {} THEN before ELSE Without(before, MinOf(hits))
              /\ \A p \in DOMAIN ws' : p[1] < row_idx'
      /\ step = "totals" =>
           /\ CellAt(ws', row_idx, 1) = Text("Total")
           /\ RowsOf(ws', row_idx) = RowsOf(ws, row_idx)
           /\ \A row \in 3..(row_idx - 1) : "route" \in DOMAIN CellAt(ws', row, 1)
           /\ \A p \in DOMAIN ws' : p[1] <= row_idx
    ]_vars

\* the sheet is finished, one TAXI row was removed and a lower TAXI row and
\* a row that is no TAXI row remain
C4_Witness ==
  /\ step = "done"
  /\ Len(all_routes) = row_idx - 3 + 1
  /\ \E i, j \in 3..(row_idx - 1) : HasTaxi(ws[<<i, 1>>].route) /\ ~HasTaxi(ws[<<j, 1>>].route)
  /\ CellAt(ws, row_idx, 1) = Text("Total")

\* C5 as stated: the row order is a function of the route identifiers alone,
\* so a second run on the same uploads yields the same row order.
C5_AsStated == step \in {"taxi", "totals", "done"} => all_routes = rerun_routes

\* C6 as stated: the route rows are the route identifiers of the present
\* weekday, Saturday and Sunday mappings less the one excluded TAXI route; a
\* file of another name adds no row and no column.
C6_AsStated ==
  step = "done" =>
    LET recognised == UNION {DOMAIN all_data[f] : f \in PresentDayTypes}
        shown == Range(RouteColumn(ws, row_idx))
    IN /\ shown \subseteq recognised
       /\ \A r \in recognised \ shown : HasTaxi(r)
       /\ Cardinality(recognised \ shown) <= 1
       /\ \A p \in DOMAIN ws : p[2] <= 1 + NumFields * Len(file_order)

\* a file's own booking identifier: the digits of its first Booking line
OwnBookingCode(file) ==
  LET hits == {i \in 1..Len(file.lines) : file.lines[i].kind = "booking"}
  IN IF hits = {} THEN "unknown" ELSE file.lines[MinOf(hits)].code

\* C7: at every point of the upload loop (and after it) the overall booking
\* identifier is the own identifier of the first processed file that has
\* one, in input order, and 'unknown' if no processed file has one.
C7_BookingCode ==
  step # "off" =>
    LET known == {i \in 1..(file_idx - 1) : OwnBookingCode(uploaded_files[i]) # "unknown"}
    IN booking_code =
         IF known = {} THEN "unknown" ELSE OwnBookingCode(uploaded_files[MinOf(known)])

\* all files are processed; two of them had different identifiers and the
\* overall identifier is that of the earlier one
C7_Witness ==
  /\ step = "done"
  /\ \E i, j \in 1..Len(uploaded_files) :
       /\ i < j
       /\ OwnBookingCode(uploaded_files[i]) # "unknown"
       /\ OwnBookingCode(uploaded_files[j]) # "unknown"
       /\ OwnBookingCode(uploaded_files[j]) # OwnBookingCode(uploaded_files[i])
       /\ booking_code = OwnBookingCode(uploaded_files[i])

HasLeadingInt(route) == route # <<>> /\ IsDigit(route[1])

LeadingInt(route) == DigitsToInt(DigitPrefix(route))

\* C9: from the moment the route rows are written, they are in ascending
\* order of the leading integer, and every identifier without a leading
\* integer is below every identifier that has one.
C9_RouteOrder ==
  step \in {"taxi", "totals", "done"} =>
    LET col == RouteColumn(ws, row_idx)
    IN \A i, j \in 1..Len(col) :
         i < j =>
           /\ HasLeadingInt(col[j]) => HasLeadingInt(col[i])
           /\ (HasLeadingInt(col[i]) /\ HasLeadingInt(col[j])) =>
                LeadingInt(col[i]) <= LeadingInt(col[j])

\* '12 Main St' was read before '3 Elm Ave'; the finished sheet shows
\* '3 Elm Ave', '12 Main St', 'Shuttle Bus'
C9_Witness ==
  /\ step = "done"
  /\ RouteColumn(ws, row_idx) =
       << <<"3"," ","E","l","m"," ","A","v","e">>,
          <<"1","2"," ","M","a","i","n"," ","S","t">>,
          <<"S","h","u","t","t","l","e"," ","B","u","s">> >>

====
